---- MODULE Spec2Model ----
(***************************************************************************)
(* Density-function graph of pumpkin-world: the linear and binary          *)
(* combinators of world_gen/noise/density/math.rs.                         *)
(*                                                                         *)
(* Nodes live in an arena `nodes` (a sequence); an Arc<DensityFunction> is *)
(* an index into it, so a sub-node may be shared by several parents.       *)
(* f64 values are modelled by exact integers: the model covers finite      *)
(* values without rounding; NaN, infinities and signed zero are outside.   *)
(***************************************************************************)
EXTENDS Integers, Sequences, FiniteSets, TLC

VARIABLES nodes, last, wk

vars == <<nodes, last, wk>>

\* Leaf bounds and constants are drawn from -MaxVal..MaxVal.
MaxVal == 2
\* Block coordinates x and z range over 0..MaxCoord.
MaxCoord == 1
\* Largest arena the factory is driven to by the build actions.
MaxGraph == 5

Vals == (0 - MaxVal)..MaxVal
Coords == 0..MaxCoord
NoisePos == [x : Coords, z : Coords]
Origin == [x |-> 0, z |-> 0]

Min2(a, b) == IF a <= b THEN a ELSE b
Max2(a, b) == IF a >= b THEN a ELSE b

(***************************************************************************)
(* Node kinds.  One record shape for every kind; unused fields are 0/None. *)
(***************************************************************************)
Constant(v) ==
    [kind |-> "Constant", action |-> "None", input |-> 0, arg1 |-> 0, arg2 |-> 0,
     min |-> v, max |-> v, arg |-> 0, value |-> v, axis |-> "none"]

Noise(ax, lo, hi) ==
    [kind |-> "Noise", action |-> "None", input |-> 0, arg1 |-> 0, arg2 |-> 0,
     min |-> lo, max |-> hi, arg |-> 0, value |-> 0, axis |-> ax]

LinearFunction(act, inp, lo, hi, a) ==
    [kind |-> "Linear", action |-> act, input |-> inp, arg1 |-> 0, arg2 |-> 0,
     min |-> lo, max |-> hi, arg |-> a, value |-> 0, axis |-> "none"]

BinaryFunction(act, a1, a2, lo, hi) ==
    [kind |-> "Binary", action |-> act, input |-> 0, arg1 |-> a1, arg2 |-> a2,
     min |-> lo, max |-> hi, arg |-> 0, value |-> 0, axis |-> "none"]

BinaryType == {"Mul", "Add", "Min", "Max"}
LinearType == {"Mul", "Add"}

(***************************************************************************)
(* LinearFunction::apply, lines 31-40: bounds of a linear node over a      *)
(* child with bounds [d, e].                                               *)
(***************************************************************************)
LinearBoundsNoSwap(act, d, e, a) ==
    IF act = "Add" THEN <<d + a, e + a>> ELSE <<d * a, e * a>>

LinearBounds(act, d, e, a) ==
    IF act = "Add"
    THEN <<d + a, e + a>>
    ELSE IF a >= 0 THEN <<d * a, e * a>> ELSE <<e * a, d * a>>

\* UnaryDensityFunction::apply_density
ApplyDensityIgnoreArg(act, a, density) == density

ApplyDensity(act, a, density) ==
    IF act = "Mul" THEN density * a ELSE density + a

(***************************************************************************)
(* BinaryFunction::create: lower bound h and upper bound i.                *)
(***************************************************************************)
CreateMinSwapped(act, d, e, f, g) ==
    CASE act = "Add" -> d + e
      [] act = "Mul" -> IF d > 0 /\ e > 0 THEN d * e
                        ELSE IF f < 0 /\ g < 0 THEN d * e
                        ELSE Min2(d * g, f * e)
      [] act = "Min" -> Min2(d, e)
      [] act = "Max" -> Max2(d, e)

CreateMin(act, d, e, f, g) ==
    CASE act = "Add" -> d + e
      [] act = "Mul" -> IF d > 0 /\ e > 0 THEN d * e
                        ELSE IF f < 0 /\ g < 0 THEN f * g
                        ELSE Min2(d * g, f * e)
      [] act = "Min" -> Min2(d, e)
      [] act = "Max" -> Max2(d, e)

CreateMaxNoSign(act, d, e, f, g) ==
    CASE act = "Add" -> f + g
      [] act = "Mul" -> IF d > 0 /\ e > 0 THEN f * g
                        ELSE IF f < 0 /\ g < 0 THEN d * e
                        ELSE f * g
      [] act = "Min" -> Min2(f, g)
      [] act = "Max" -> Max2(f, g)

CreateMax(act, d, e, f, g) ==
    CASE act = "Add" -> f + g
      [] act = "Mul" -> IF d > 0 /\ e > 0 THEN f * g
                        ELSE IF f < 0 /\ g < 0 THEN d * e
                        ELSE Max2(d * e, f * g)
      [] act = "Min" -> Min2(f, g)
      [] act = "Max" -> Max2(f, g)

\* The factory's choice of node: 1 = linear over arg2 with arg1's constant,
\* 2 = linear over arg1 with arg2's constant, 0 = binary node.
FoldSecondFirst(act, k1, k2) ==
    IF act \in {"Mul", "Add"} /\ k2 = "Constant" THEN 2
    ELSE IF act \in {"Mul", "Add"} /\ k1 = "Constant" THEN 1
    ELSE 0

Fold(act, k1, k2) ==
    IF act \in {"Mul", "Add"} /\ k1 = "Constant" THEN 1
    ELSE IF act \in {"Mul", "Add"} /\ k2 = "Constant" THEN 2
    ELSE 0

Create(ns, act, a1, a2) ==
    LET d == ns[a1].min
        e == ns[a2].min
        f == ns[a1].max
        g == ns[a2].max
        h == CreateMin(act, d, e, f, g)
        i == CreateMax(act, d, e, f, g)
        c == Fold(act, ns[a1].kind, ns[a2].kind)
    IN  CASE c = 1 -> LinearFunction(act, a2, h, i, ns[a1].value)
          [] c = 2 -> LinearFunction(act, a1, h, i, ns[a2].value)
          [] OTHER -> BinaryFunction(act, a1, a2, h, i)

\* The overlap diagnostic of the factory (logged only).
OverlapWarning(ns, act, a1, a2) ==
    /\ act \in {"Min", "Max"}
    /\ \/ ns[a1].min >= ns[a2].min
       \/ ns[a2].min >= ns[a1].max

(***************************************************************************)
(* Leaves.  A noise leaf is a pure function of the position that stays     *)
(* within its declared bounds: it sweeps [min, max] along its axis.        *)
(***************************************************************************)
NoiseSample(n, pos) ==
    LET c == IF n.axis = "x" THEN pos.x ELSE pos.z
    IN  n.min + ((n.max - n.min) * c) \div MaxCoord

(***************************************************************************)
(* sample: the value at `pos` and the nodes whose sample ran, in order.    *)
(***************************************************************************)
BinarySampleValue(act, d, e, min2, max2) ==
    CASE act = "Add" -> d + e
      [] act = "Mul" -> d * e
      [] act = "Min" -> IF d < min2 THEN d ELSE Min2(d, e)
      [] act = "Max" -> IF d > max2 THEN d ELSE Max2(d, e)

RECURSIVE Sample(_, _, _)
Sample(ns, id, pos) ==
    LET n == ns[id]
    IN  CASE n.kind = "Constant" -> [value |-> n.value, trace |-> <<id>>]
          [] n.kind = "Noise" -> [value |-> NoiseSample(n, pos), trace |-> <<id>>]
          [] n.kind = "Linear" ->
                LET r == Sample(ns, n.input, pos)
                IN  [value |-> ApplyDensity(n.action, n.arg, r.value),
                     trace |-> <<id>> \o r.trace]
          [] n.kind = "Binary" ->
                LET r1 == Sample(ns, n.arg1, pos)
                    r2 == Sample(ns, n.arg2, pos)
                IN  [value |-> BinarySampleValue(n.action, r1.value, r2.value,
                                                 ns[n.arg2].min, ns[n.arg2].max),
                     trace |-> (<<id>> \o r1.trace) \o r2.trace]

(***************************************************************************)
(* Positional context of a batched fill: index i of the output array maps  *)
(* to a position, as a pure function of i.                                 *)
(***************************************************************************)
NumPositions == (MaxCoord + 1) * (MaxCoord + 1)

PosAt(k) == [x |-> k \div (MaxCoord + 1), z |-> k % (MaxCoord + 1)]

Appliers == [off : 0..(NumPositions - 1), stride : 0..1]

ApplierAt(applier, i) == PosAt((applier.off + applier.stride * i) % NumPositions)

Indices == 0..(NumPositions - 1)

(***************************************************************************)
(* fill: `densities` after the call, as a function of the index.           *)
(***************************************************************************)
\* closure bodies of BinaryFunction::fill; s is arg2.sample(applier.at(i))
FillCombineMaxBound(act, val, min2, max2, s) ==
    CASE act = "Mul" -> IF val # 0 THEN val * s ELSE val
      [] act = "Min" -> IF val >= max2 THEN Min2(val, s) ELSE val
      [] act = "Max" -> IF val <= min2 THEN Max2(val, s) ELSE val

FillCombine(act, val, min2, max2, s) ==
    CASE act = "Mul" -> IF val # 0 THEN val * s ELSE val
      [] act = "Min" -> IF val >= min2 THEN Min2(val, s) ELSE val
      [] act = "Max" -> IF val <= max2 THEN Max2(val, s) ELSE val

RECURSIVE Fill(_, _, _)
Fill(ns, id, applier) ==
    LET n == ns[id]
    IN  CASE n.kind \in {"Constant", "Noise"} ->
                [i \in Indices |-> Sample(ns, id, ApplierAt(applier, i)).value]
          [] n.kind = "Linear" ->
                LET densities == Fill(ns, n.input, applier)
                IN  [i \in Indices |-> ApplyDensity(n.action, n.arg, densities[i])]
          [] n.kind = "Binary" ->
                LET densities == Fill(ns, n.arg1, applier)
                IN  IF n.action = "Add"
                    THEN LET ds == Fill(ns, n.arg2, applier)
                         IN  [i \in Indices |-> densities[i] + ds[i]]
                    ELSE [i \in Indices |->
                            FillCombine(n.action, densities[i],
                                        ns[n.arg2].min, ns[n.arg2].max,
                                        Sample(ns, n.arg2, ApplierAt(applier, i)).value)]

(***************************************************************************)
(* Visitors: a rewrite replaces every node of one kind by a given leaf, or *)
(* replaces nothing.                                                       *)
(***************************************************************************)
\* The leaves a generator starts from: two noise leaves and a constant.
Leaves == <<Noise("x", -1, 0), Noise("z", 0, 1), Constant(-2)>>

LeafSets ==
    {Leaves,
     <<Noise("x", -2, -1), Noise("z", 1, 2), Constant(2)>>,
     <<Noise("x", -1, 1), Noise("z", -2, 0), Constant(0)>>}

Kinds == {"Constant", "Noise", "Linear", "Binary"}

Identity == [match |-> "None", with |-> 0]

Visitors == {Identity} \cup [match : Kinds, with : 1..Len(Leaves)]

VisitorApply(ns, v, id) == IF ns[id].kind = v.match THEN v.with ELSE id

BuildEvent(id, src) == [ev |-> "build", node |-> id, from |-> src]
VisitEvent(id, src) == [ev |-> "visit", node |-> id, from |-> src]

(***************************************************************************)
(* apply: the arena with the rebuilt nodes appended, the node returned,    *)
(* and the allocations and visitor calls in the order they happen.         *)
(***************************************************************************)
\* what LinearFunction::apply does with its rebuilt node (id), built from src
LinearFinishVisited(ns, v, id, src) ==
    [id |-> VisitorApply(ns, v, id), log |-> <<BuildEvent(id, src), VisitEvent(id, src)>>]

LinearFinish(ns, v, id, src) ==
    [id |-> id, log |-> <<BuildEvent(id, src)>>]

\* what BinaryFunction::apply does with its rebuilt node
BinaryFinishUnvisited(ns, v, id, src) ==
    [id |-> id, log |-> <<BuildEvent(id, src)>>]

BinaryFinish(ns, v, id, src) ==
    [id |-> VisitorApply(ns, v, id), log |-> <<BuildEvent(id, src), VisitEvent(id, src)>>]

\* where apply puts a rebuilt node: a fresh allocation
AllocInPlace(ns, src, node) == [ns EXCEPT ![src] = node]

Alloc(ns, src, node) == Append(ns, node)

RECURSIVE Apply(_, _, _)
Apply(ns, id, v) ==
    LET n == ns[id]
    IN  CASE n.kind \in {"Constant", "Noise"} ->
                [nodes |-> ns, id |-> VisitorApply(ns, v, id),
                 log |-> <<VisitEvent(id, id)>>]
          [] n.kind = "Linear" ->
                LET r == Apply(ns, n.input, v)
                    b == LinearBounds(n.action, r.nodes[r.id].min, r.nodes[r.id].max, n.arg)
                    ns2 == Alloc(r.nodes, id, LinearFunction(n.action, r.id, b[1], b[2], n.arg))
                    fin == LinearFinish(ns2, v, Len(ns2), id)
                IN  [nodes |-> ns2, id |-> fin.id, log |-> r.log \o fin.log]
          [] n.kind = "Binary" ->
                LET r1 == Apply(ns, n.arg1, v)
                    r2 == Apply(r1.nodes, n.arg2, v)
                    ns3 == Alloc(r2.nodes, id, Create(r2.nodes, n.action, r1.id, r2.id))
                    fin == BinaryFinish(ns3, v, Len(ns3), id)
                IN  [nodes |-> ns3, id |-> fin.id, log |-> (r1.log \o r2.log) \o fin.log]

(***************************************************************************)
(* State.  `last` is the most recent call and what it returned.            *)
(***************************************************************************)
NoCall ==
    [op |-> "none", action |-> "None", a1 |-> 0, a2 |-> 0, root |-> 0,
     pos |-> Origin, value |-> 0, trace |-> <<>>,
     applier |-> [off |-> 0, stride |-> 0], buf |-> <<>>,
     visitor |-> Identity, result |-> 0, arena |-> <<>>, log |-> <<>>,
     warned |-> FALSE]

\* No call result is pending: the caller has consumed what the last
\* evaluation or rewrite returned.
AtRest == last.op \in {"none", "create"}

\* The caller drops the result of the last sample, fill or apply.
Return ==
    /\ ~AtRest
    /\ last' = NoCall
    /\ UNCHANGED <<nodes, wk>>

\* BinaryFunction::create(action, arg1, arg2), wrapped in an Arc
CreateNode(limit) ==
    /\ AtRest
    /\ Len(nodes) < limit
    /\ \E act \in BinaryType, a1 \in 1..Len(nodes), a2 \in 1..Len(nodes) :
          /\ nodes' = Append(nodes, Create(nodes, act, a1, a2))
          /\ last' = [NoCall EXCEPT !.op = "create", !.action = act,
                                    !.a1 = a1, !.a2 = a2, !.result = Len(nodes) + 1,
                                    !.warned = OverlapWarning(nodes, act, a1, a2)]
    /\ UNCHANGED wk

\* root.sample(pos)
SamplePoint(roots) ==
    /\ AtRest
    /\ \E root \in roots, pos \in NoisePos :
          LET r == Sample(nodes, root, pos)
          IN  last' = [NoCall EXCEPT !.op = "sample", !.root = root, !.pos = pos,
                                     !.value = r.value, !.trace = r.trace]
    /\ UNCHANGED <<nodes, wk>>

\* root.fill(densities, applier)
FillArray ==
    /\ AtRest
    /\ \E root \in 1..Len(nodes), applier \in Appliers :
          last' = [NoCall EXCEPT !.op = "fill", !.root = root, !.applier = applier,
                                 !.buf = Fill(nodes, root, applier)]
    /\ UNCHANGED <<nodes, wk>>

\* root.apply(visitor): a new graph; the graph it was called on stays as it is
RewriteOf(roots) ==
    /\ AtRest
    /\ \E root \in roots, v \in Visitors :
          LET r == Apply(nodes, root, v)
          IN  last' = [NoCall EXCEPT !.op = "apply", !.root = root, !.visitor = v,
                                     !.result = r.id, !.arena = r.nodes, !.log = r.log]
    /\ UNCHANGED <<nodes, wk>>

(***************************************************************************)
(* SpecCreate: the factory applied once to two operands drawn from all     *)
(* leaves with bounds in Vals, and the created node sampled.               *)
(***************************************************************************)
Operands(ax) ==
    {Constant(v) : v \in Vals}
      \cup {Noise(ax, b[1], b[2]) : b \in {c \in Vals \X Vals : c[1] <= c[2]}}

InitCreate ==
    /\ \E o1 \in Operands("x"), o2 \in Operands("z") : nodes = <<o1, o2>>
    /\ last = NoCall
    /\ wk = <<>>

CreateOnce == CreateNode(3)

SampleCreated == Len(nodes) = 3 /\ SamplePoint({3})

NextCreate == CreateOnce \/ SampleCreated \/ Return

SpecCreate == InitCreate /\ [][NextCreate]_vars

(***************************************************************************)
(* The graph a generator starts from: three leaves and the linear node the *)
(* factory folds from the constant and the first noise leaf.               *)
(***************************************************************************)
Folded(ls) == Append(ls, Create(ls, "Mul", 3, 1))

InitGraph == Folded(Leaves)

InitBuilt ==
    /\ \E ls \in LeafSets : nodes = Folded(ls)
    /\ last = NoCall
    /\ wk = <<>>

Build == CreateNode(MaxGraph)

SampleAny == SamplePoint(1..Len(nodes))

(***************************************************************************)
(* SpecEval: graphs are built by the factory and evaluated, by point and   *)
(* by array.                                                               *)
(***************************************************************************)
NextEval == Build \/ SampleAny \/ FillArray \/ Return

SpecEval == InitBuilt /\ [][NextEval]_vars

(***************************************************************************)
(* SpecApply: graphs are built by the factory and rewritten by visitors.   *)
(***************************************************************************)
Rewrite == RewriteOf(1..Len(nodes))

NextApply == Build \/ Rewrite \/ Return

SpecApply == InitBuilt /\ [][NextApply]_vars

(***************************************************************************)
(* SpecShared: a published graph read by several workers, each with its    *)
(* own positional context and output buffer, while the graph is rewritten. *)
(* A worker's fill of a combinator advances one inner call or one array    *)
(* element at a time.                                                      *)
(***************************************************************************)
Workers == {1, 2}

SharedGraph ==
    LET g5 == Append(InitGraph, Create(InitGraph, "Max", 4, 2))
        g6 == Append(g5, Create(g5, "Min", 1, 2))
        g7 == Append(g6, Create(g6, "Mul", 1, 5))
    IN  Append(g7, Create(g7, "Add", 6, 7))

Zeros == [i \in Indices |-> 0]

IdleWorker ==
    [pc |-> "idle", root |-> 0, pos |-> Origin, value |-> 0,
     i |-> 0, densities |-> Zeros, ds |-> Zeros]

WorkerApplier(w) == [off |-> w % NumPositions, stride |-> 1]

Combinators == {id \in 1..Len(nodes) : nodes[id].kind \in {"Linear", "Binary"}}

InitShared ==
    /\ nodes = SharedGraph
    /\ last = NoCall
    /\ wk = [w \in Workers |-> IdleWorker]

WorkerSample(w) ==
    /\ wk[w].pc = "idle"
    /\ \E root \in Combinators, pos \in NoisePos :
          wk' = [wk EXCEPT ![w] = [IdleWorker EXCEPT !.pc = "sampled", !.root = root,
                                       !.pos = pos,
                                       !.value = Sample(nodes, root, pos).value]]
    /\ UNCHANGED <<nodes, last>>

StartFill(w) ==
    /\ wk[w].pc = "idle"
    /\ \E root \in Combinators :
          wk' = [wk EXCEPT ![w] = [IdleWorker EXCEPT !.pc = "arg1", !.root = root]]
    /\ UNCHANGED <<nodes, last>>

\* self.input.fill(densities, applier) / self.arg1.fill(densities, applier)
FillFirst(w) ==
    /\ wk[w].pc = "arg1"
    /\ LET n == nodes[wk[w].root]
           child == IF n.kind = "Linear" THEN n.input ELSE n.arg1
       IN  wk' = [wk EXCEPT ![w].densities = Fill(nodes, child, WorkerApplier(w)),
                            ![w].pc = IF n.kind = "Binary" /\ n.action = "Add"
                                      THEN "arg2" ELSE "loop"]
    /\ UNCHANGED <<nodes, last>>

\* self.arg2.fill(&mut ds, applier) of the add branch
FillScratch(w) ==
    /\ wk[w].pc = "arg2"
    /\ wk' = [wk EXCEPT ![w].ds = Fill(nodes, nodes[wk[w].root].arg2, WorkerApplier(w)),
                        ![w].pc = "loop"]
    /\ UNCHANGED <<nodes, last>>

\* one element of the iter_mut().for_each(...) pass
LoopStep(w) ==
    /\ wk[w].pc = "loop"
    /\ LET n == nodes[wk[w].root]
           i == wk[w].i
           val == wk[w].densities[i]
           new == IF n.kind = "Linear" THEN ApplyDensity(n.action, n.arg, val)
                  ELSE IF n.action = "Add" THEN val + wk[w].ds[i]
                  ELSE FillCombine(n.action, val, nodes[n.arg2].min, nodes[n.arg2].max,
                                   Sample(nodes, n.arg2, ApplierAt(WorkerApplier(w), i)).value)
       IN  wk' = [wk EXCEPT ![w].densities[i] = new,
                            ![w].i = i + 1,
                            ![w].pc = IF i + 1 = NumPositions THEN "done" ELSE "loop"]
    /\ UNCHANGED <<nodes, last>>

\* the worker consumes its result
Release(w) ==
    /\ wk[w].pc \in {"done", "sampled"}
    /\ wk' = [wk EXCEPT ![w] = IdleWorker]
    /\ UNCHANGED <<nodes, last>>

\* the published root is rewritten into a new graph
SharedRewrite == RewriteOf({Len(nodes)})

WorkerStep ==
    \E w \in Workers :
        \/ WorkerSample(w)
        \/ StartFill(w)
        \/ FillFirst(w)
        \/ FillScratch(w)
        \/ LoopStep(w)
        \/ Release(w)

NextShared == WorkerStep \/ SharedRewrite \/ Return

SpecShared == InitShared /\ [][NextShared]_vars

(***************************************************************************)
(* Properties of the factory (SpecCreate).                                 *)
(***************************************************************************)
Created == last.op = "create"

SampleOf(id, pos) == Sample(nodes, id, pos).value

\* What a linear combinator with argument c computes from its input's value.
LinearValue(act, c, x) == IF act = "Add" THEN x + c ELSE x * c

\* C3: create(Add or Mul, Constant(c), X), in either operand order, returns a
\* node whose sample and fill are x + c (x * c) of X's value and whose bounds
\* are [lo + c, hi + c] for add, [c*lo, c*hi] for multiply with c >= 0 and
\* [c*hi, c*lo] for multiply with c < 0.
C3_FoldingEquivalence ==
    (Created /\ last.action \in {"Add", "Mul"}) =>
        \A p \in {<<last.a1, last.a2>>, <<last.a2, last.a1>>} :
            nodes[p[1]].kind = "Constant" =>
                LET c == nodes[p[1]].value
                    lo == nodes[p[2]].min
                    hi == nodes[p[2]].max
                    n == nodes[last.result]
                IN  /\ last.action = "Add" => (n.min = lo + c /\ n.max = hi + c)
                    /\ (last.action = "Mul" /\ c >= 0) => (n.min = c * lo /\ n.max = c * hi)
                    /\ (last.action = "Mul" /\ c < 0) => (n.min = c * hi /\ n.max = c * lo)
                    /\ \A pos \in NoisePos :
                          SampleOf(last.result, pos)
                            = LinearValue(last.action, c, SampleOf(p[2], pos))
                    /\ \A applier \in Appliers : \A i \in Indices :
                          Fill(nodes, last.result, applier)[i]
                            = LinearValue(last.action, c, Fill(nodes, p[2], applier)[i])

\* C3 witness: a multiply by a negative constant in second position over a
\* noise leaf whose interval straddles zero.
C3_Witness ==
    /\ Created /\ last.action = "Mul"
    /\ nodes[last.a2].kind = "Constant" /\ nodes[last.a2].value < 0
    /\ nodes[last.a1].kind = "Noise"
    /\ nodes[last.a1].min < 0 /\ nodes[last.a1].max > 0
    /\ nodes[last.result].kind = "Linear"

LeavesSound ==
    \A id \in 1..Len(nodes) : \A pos \in NoisePos :
        nodes[id].kind \in {"Constant", "Noise"} =>
            /\ nodes[id].min <= SampleOf(id, pos)
            /\ SampleOf(id, pos) <= nodes[id].max

\* C4: if every leaf samples within its declared bounds, every node built by
\* the factory samples within its own [min, max] at every position.
C4_BoundsSoundness ==
    (LeavesSound /\ last.op = "sample") =>
        /\ nodes[last.root].min <= last.value
        /\ last.value <= nodes[last.root].max

\* C5: the factory returns a linear node exactly for add/multiply with a
\* constant child (input the other child, arg the constant; child1's value
\* over child2 when both are constants) and otherwise a binary node holding
\* both children in their order.
C5_FoldingStructure ==
    Created =>
        LET n == nodes[last.result]
            k1 == nodes[last.a1].kind
            k2 == nodes[last.a2].kind
        IN  /\ (n.kind = "Linear") <=>
                  (last.action \in {"Add", "Mul"} /\ (k1 = "Constant" \/ k2 = "Constant"))
            /\ n.kind = "Linear" =>
                  /\ n.action = last.action
                  /\ IF k1 = "Constant"
                     THEN n.input = last.a2 /\ n.arg = nodes[last.a1].value
                     ELSE n.input = last.a1 /\ n.arg = nodes[last.a2].value
            /\ n.kind # "Linear" =>
                  /\ n.kind = "Binary" /\ n.action = last.action
                  /\ n.arg1 = last.a1 /\ n.arg2 = last.a2

\* C5 witness: two different constants added.
C5_Witness ==
    /\ Created /\ last.action = "Add"
    /\ last.a1 # last.a2
    /\ nodes[last.a1].kind = "Constant" /\ nodes[last.a2].kind = "Constant"
    /\ nodes[last.a1].value # nodes[last.a2].value
    /\ nodes[last.result].kind = "Linear"

\* C9: the bounds stored for a multiply are [d*e, f*g] when both children are
\* non-negative, [f*g, d*e] when both are non-positive (zero endpoints
\* included in both cases) and [min(d*g, f*e), max(d*e, f*g)] otherwise.
C9_MultiplyBounds ==
    (Created /\ last.action = "Mul") =>
        LET d == nodes[last.a1].min
            e == nodes[last.a2].min
            f == nodes[last.a1].max
            g == nodes[last.a2].max
            n == nodes[last.result]
        IN  /\ (d >= 0 /\ e >= 0) => (n.min = d * e /\ n.max = f * g)
            /\ (f <= 0 /\ g <= 0) => (n.min = f * g /\ n.max = d * e)
            /\ (~(d >= 0 /\ e >= 0) /\ ~(f <= 0 /\ g <= 0)) =>
                  (n.min = Min2(d * g, f * e) /\ n.max = Max2(d * e, f * g))

\* C9 witness: a multiply of two non-positive intervals, one ending at zero.
C9_Witness ==
    /\ Created /\ last.action = "Mul"
    /\ nodes[last.a1].min < 0 /\ nodes[last.a1].max = 0
    /\ nodes[last.a2].min < nodes[last.a2].max /\ nodes[last.a2].max < 0

(***************************************************************************)
(* Properties of evaluation (SpecEval).                                    *)
(***************************************************************************)
Filled == last.op = "fill"

Sampled == last.op = "sample"

\* C2: after fill(densities, applier), every index i holds the value
\* sample(applier.at(i)) returns for the same node.
C2_FillSampleEquivalence ==
    Filled =>
        \A i \in Indices :
            last.buf[i] = SampleOf(last.root, ApplierAt(last.applier, i))

\* C2 witness: a max over a linear node is filled; at one index child1 is
\* above child2's upper bound, at another child2's value replaces child1's.
C2_Witness ==
    /\ Filled
    /\ nodes[last.root].kind = "Binary" /\ nodes[last.root].action = "Max"
    /\ nodes[nodes[last.root].arg1].kind = "Linear"
    /\ \E i \in Indices :
          SampleOf(nodes[last.root].arg1, ApplierAt(last.applier, i))
            > nodes[nodes[last.root].arg2].max
    /\ \E j \in Indices :
          last.buf[j] # SampleOf(nodes[last.root].arg1, ApplierAt(last.applier, j))

\* C10: sample of a min (max) combinator samples child2 only when child1's
\* value is not below child2's min() (not above child2's max()); otherwise
\* child2 is not sampled at all and child1's value is returned.
C10_ShortCircuit ==
    (Sampled /\ nodes[last.root].kind = "Binary") =>
        LET n == nodes[last.root]
            r1 == Sample(nodes, n.arg1, last.pos)
            beyond == \/ n.action = "Min" /\ r1.value < nodes[n.arg2].min
                      \/ n.action = "Max" /\ r1.value > nodes[n.arg2].max
        IN  beyond => /\ last.value = r1.value
                      /\ last.trace = <<last.root>> \o r1.trace

(***************************************************************************)
(* Properties of rewriting (SpecApply).                                    *)
(***************************************************************************)
Applied == last.op = "apply"

\* C1: every node produced by the factory or by apply has min() <= max(),
\* given that its children have; so has every node of every graph.
C1_MinLeMax ==
    /\ \A id \in 1..Len(nodes) : nodes[id].min <= nodes[id].max
    /\ \A id \in 1..Len(last.arena) : last.arena[id].min <= last.arena[id].max

\* C1 witness: a rewrite rebuilt a multiply by a negative constant over a
\* child with a proper interval, on top of a factory-built graph.
C1_Witness ==
    /\ Applied
    /\ Len(nodes) > Len(InitGraph)
    /\ \E id \in (Len(nodes) + 1)..Len(last.arena) :
          /\ last.arena[id].kind = "Linear"
          /\ last.arena[id].action = "Mul" /\ last.arena[id].arg < 0
          /\ last.arena[last.arena[id].input].min < last.arena[last.arena[id].input].max
          /\ last.arena[last.arena[id].input].kind # "Noise"

\* C7: apply of a binary node rewrites both children, rebuilds the node with
\* the factory from the rewritten children (so a constant child folds to a
\* linear node, with bounds from the rewritten children), then hands the
\* rebuilt node to the visitor, whose return value is the result.
C7_BinaryApply ==
    (Applied /\ nodes[last.root].kind = "Binary") =>
        LET n == nodes[last.root]
            r1 == Apply(nodes, n.arg1, last.visitor)
            r2 == Apply(r1.nodes, n.arg2, last.visitor)
            bid == Len(last.arena)
            b == last.arena[bid]
            c1 == last.arena[r1.id]
            c2 == last.arena[r2.id]
        IN  /\ bid = Len(r2.nodes) + 1
            /\ SubSeq(last.arena, 1, bid - 1) = r2.nodes
            /\ b = Create(r2.nodes, n.action, r1.id, r2.id)
            /\ (n.action \in {"Add", "Mul"} /\ (c1.kind = "Constant" \/ c2.kind = "Constant"))
                  => b.kind = "Linear"
            /\ n.action = "Add" => (b.min = c1.min + c2.min /\ b.max = c1.max + c2.max)
            /\ last.log = (r1.log \o r2.log)
                              \o <<BuildEvent(bid, last.root), VisitEvent(bid, last.root)>>
            /\ last.result = VisitorApply(last.arena, last.visitor, bid)

\* C7 witness: the visitor turned the noise leaves of a binary add into
\* constants and the rebuilt node came back as a linear node.
C7_Witness ==
    /\ Applied
    /\ nodes[last.root].kind = "Binary" /\ nodes[last.root].action = "Add"
    /\ last.visitor.match = "Noise"
    /\ last.result = Len(last.arena)
    /\ last.arena[last.result].kind = "Linear"
    /\ last.arena[last.result].max # nodes[last.root].max

\* C8 as stated: every node rebuilt during apply, linear nodes included, is
\* handed to the visitor right after it is built.
C8_EveryRebuiltNodeVisited ==
    Applied =>
        \A k \in 1..Len(last.log) :
            last.log[k].ev = "build" =>
                /\ k < Len(last.log)
                /\ last.log[k + 1] = VisitEvent(last.log[k].node, last.log[k].from)

\* C8 amended: children are rewritten before their parent is rebuilt; a node
\* rebuilt from a binary node is handed to the visitor right after it is
\* built; a node rebuilt from a linear node is a linear node over the
\* rewritten child with bounds by the sign rule, and is not handed to the
\* visitor.
C8_PostOrderBinaryOnly ==
    Applied =>
        \A k \in 1..Len(last.log) :
            last.log[k].ev = "build" =>
                LET b == last.arena[last.log[k].node]
                    src == nodes[last.log[k].from]
                    visited == /\ k < Len(last.log)
                               /\ last.log[k + 1].ev = "visit"
                               /\ last.log[k + 1].node = last.log[k].node
                IN  /\ last.log[k].node > Len(nodes)
                    /\ b.input < last.log[k].node
                    /\ b.arg1 < last.log[k].node /\ b.arg2 < last.log[k].node
                    /\ src.kind = "Binary" => visited
                    /\ src.kind = "Linear" =>
                          /\ ~visited
                          /\ b.kind = "Linear"
                          /\ b.action = src.action /\ b.arg = src.arg
                          /\ LET lo == last.arena[b.input].min
                                 hi == last.arena[b.input].max
                             IN  IF src.action = "Add"
                                 THEN b.min = lo + src.arg /\ b.max = hi + src.arg
                                 ELSE IF src.arg >= 0
                                      THEN b.min = lo * src.arg /\ b.max = hi * src.arg
                                      ELSE b.min = hi * src.arg /\ b.max = lo * src.arg

\* C8 witness: a visitor that replaces linear nodes is applied to a linear
\* node and gets back a freshly built linear node.
C8_Witness ==
    /\ Applied
    /\ last.visitor.match = "Linear"
    /\ nodes[last.root].kind = "Linear"
    /\ last.result = Len(last.arena)
    /\ last.result > Len(nodes)
    /\ last.arena[last.result].kind = "Linear"

(***************************************************************************)
(* Properties of sharing (SpecShared).                                     *)
(***************************************************************************)
\* C6: sample, fill and apply never change an existing node; whatever the
\* interleaving, each worker's result is what it gets running alone, and
\* after an apply the original graph samples and bounds as before.
C6_SharedImmutability ==
    /\ nodes = SharedGraph
    /\ \A w \in Workers :
          /\ wk[w].pc = "done" =>
                \A i \in Indices :
                    wk[w].densities[i] = Fill(SharedGraph, wk[w].root, WorkerApplier(w))[i]
          /\ wk[w].pc = "sampled" =>
                wk[w].value = Sample(SharedGraph, wk[w].root, wk[w].pos).value
    /\ Applied =>
          /\ Len(last.arena) >= Len(SharedGraph)
          /\ \A id \in 1..Len(SharedGraph) :
                /\ last.arena[id] = SharedGraph[id]
                /\ \A pos \in NoisePos :
                      Sample(last.arena, id, pos).value = Sample(SharedGraph, id, pos).value

\* C6 witness: one worker has finished a fill of the published root while the
\* other is in the middle of its own fill of it, after a rewrite that built
\* new nodes.
C6_Witness ==
    /\ Applied /\ Len(last.arena) > Len(nodes)
    /\ last.result # last.root
    /\ wk[1].pc = "done" /\ wk[1].root = Len(nodes)
    /\ wk[2].pc = "loop" /\ wk[2].root = Len(nodes) /\ wk[2].i > 0

====
